---- MODULE Spec2Model ----
(***************************************************************************)
(* LendFlow server (src/unnamed/part_002): startup, the create-customer,   *)
(* create-loan and create-payment handlers, and the dashboard.             *)
(*                                                                         *)
(* The store holds three collections (customers, loans, payments).  A      *)
(* request handler is an async function: it runs to its next `await`, the  *)
(* awaited database operation is executed by the store, and the handler's  *)
(* continuation runs on the result.  One action of this model is one       *)
(* database operation together with the continuation that consumes its     *)
(* result (the continuation touches only the handler's own locals), so     *)
(* handlers of different requests interleave at their awaits, as they do   *)
(* on the Node event loop.                                                 *)
(*                                                                         *)
(* Money is a JS Number in the source.  Here it is an integer number of    *)
(* thousandths of a rupee, so that amounts finer than a paisa exist and    *)
(* Math.round(x * 100) / 100 is a real rounding.  Binary floating point    *)
(* representation error is not modelled: the payment calculator divides    *)
(* exactly, on naturals of any size where TLC's integers do not suffice.   *)
(*                                                                         *)
(* Beside these, the module holds the database-clear handler and the GET   *)
(* routes of the server, and of the client the loan form                   *)
(* (src/src/components/LoanForm.jsx) and the notifications of App          *)
(* (src/unnamed/part_003, src/src/components/Notification.jsx), each with  *)
(* a specification of its own over the same variables.                     *)
(***************************************************************************)
EXTENDS Integers, FiniteSets, Sequences, Bags, TLC

\* Bounds of the model: how many create-customer, create-loan and
\* create-payment requests arrive in one behaviour.
MaxCustReqs == 2
MaxLoanReqs == 1
MaxPayReqs == 2
MaxGetReqs == 2
MaxNotes == 2     \* notifications shown
MaxTime == 8      \* seconds the client is followed for

\* One rupee, in the model's unit of money.
Rupee == 1000
Paisa == Rupee \div 100

CustReqIds == 1..MaxCustReqs
LoanReqIds == 1..MaxLoanReqs
PayReqIds == 1..MaxPayReqs
GetReqIds == 1..MaxGetReqs

----------------------------------------------------------------------------
(* JS values of request-body fields *)

Undefined == [t |-> "undefined", n |-> 0]
Num(x) == [t |-> "number", n |-> x]
Text == [t |-> "text", n |-> 0]

\* The text of a form field: '' is EmptyText, the text of a number is Num(x),
\* any other text is Text.
EmptyText == [t |-> "empty", n |-> 0]

\* The number NaN.
NotANumber == [t |-> "NaN", n |-> 0]

\* `!v` for a body field: undefined and the number 0 are falsy; a
\* non-numeric text is truthy.
Falsy(v) == v.t = "undefined" \/ (v.t = "number" /\ v.n = 0)

\* isNaN(v): a text that is no number.
IsNaN(v) == v.t = "text"

\* String.prototype.toUpperCase / toLowerCase on the strings the requests use.
ToUpperCase(s) ==
  CASE s = "emi" -> "EMI"
    [] s = "lump_sum" -> "LUMP_SUM"
    [] s = "weekly" -> "WEEKLY"
    [] s = "Cash" -> "CASH"
    [] s = "cash" -> "CASH"
    [] OTHER -> s

ToLowerCase(s) ==
  CASE s = "Cash" -> "cash"
    [] s = "CASH" -> "cash"
    [] s = "Bitcoin" -> "bitcoin"
    [] s = "EMI" -> "emi"
    [] s = "Raj@Example.com" -> "raj@example.com"
    [] s = "New@Example.com" -> "new@example.com"
    [] s = " New@Example.com" -> " new@example.com"
    [] OTHER -> s

\* String.prototype.trim on the strings the requests use.
Trim(s) ==
  CASE s = " raj@example.com" -> "raj@example.com"
    [] s = " new@example.com" -> "new@example.com"
    [] s = " New@Example.com" -> "New@Example.com"
    [] s = "  " -> ""
    [] OTHER -> s

----------------------------------------------------------------------------
(* Arithmetic *)

RECURSIVE GCD(_, _)
GCD(a, b) == IF b = 0 THEN a ELSE GCD(b, a % b)

\* Math.round(n / d) for d > 0: to the nearest integer, a tie towards +infinity.
RoundRatio(n, d) == (2 * n + d) \div (2 * d)

\* Math.round(x * 100) / 100 for an amount x of money.
Round2(x) == RoundRatio(x, Paisa) * Paisa

(* The powers (1 + monthlyRate)^n of the calculator are far beyond the
   integers TLC computes with, so the quotient is taken over naturals of any
   size: a sequence of digits to the base Base, the lowest first, with no
   zero digit at the top; the empty sequence is 0.  Sums over the digits and
   the carries are split in halves, to keep the evaluation shallow. *)
Base == 1000

\* The largest integer TLC computes with; every amount of money is below it.
MaxInt == 2147483647

RECURSIVE BigOf(_)
BigOf(x) == IF x = 0 THEN <<>> ELSE <<x % Base>> \o BigOf(x \div Base)

\* The natural number whose columns are T, each a natural up to MaxInt.  A
\* pass leaves in each column its last digit and the rest of the column
\* below; after four passes no column is above Base, and a column takes a
\* carry when a full column below it is followed by nines only.  The digits
\* end at the highest one that is not zero.
BigOfColumns(T) ==
  LET Pass(S) ==
        [i \in 1..Len(S) |-> (S[i] % Base) + (IF i > 1 THEN S[i - 1] \div Base ELSE 0)]
      Carry(W, full, i) ==
        IF \E j \in full : j < i /\ \A m \in (j + 1)..(i - 1) : W[m] >= Base - 1
          THEN 1 ELSE 0
      Settled(W, full) == [i \in 1..Len(W) |-> (W[i] + Carry(W, full, i)) % Base]
      Full(W) == Settled(W, {j \in 1..Len(W) : W[j] = Base})
      Top(D) == CHOOSE i \in 0..Len(D) :
                  /\ i = 0 \/ D[i] # 0
                  /\ \A j \in (i + 1)..Len(D) : D[j] = 0
      Stripped(D) == SubSeq(D, 1, Top(D))
  IN  Stripped(Full(Pass(Pass(Pass(Pass(T \o <<0>>) \o <<0>>) \o <<0>>) \o <<0>>)))

BigAdd(A, B) ==
  LET n == IF Len(A) > Len(B) THEN Len(A) ELSE Len(B)
      Digit(X, i) == IF i <= Len(X) THEN X[i] ELSE 0
  IN  BigOfColumns([i \in 1..n |-> Digit(A, i) + Digit(B, i)])

\* A - B for A >= B: a column borrows when a column below it that is short
\* is followed by columns that have nothing to lend.
BigSub(A, B) ==
  LET Diff(i) == A[i] - (IF i <= Len(B) THEN B[i] ELSE 0)
      Borrow(short, i) ==
        IF \E j \in short : j < i /\ \A m \in (j + 1)..(i - 1) : Diff(m) <= 0
          THEN 1 ELSE 0
      Lent(short) == [i \in 1..Len(A) |-> (Diff(i) - Borrow(short, i)) % Base]
  IN  BigOfColumns(Lent({j \in 1..Len(A) : Diff(j) < 0}))

\* A * B; column c is the sum of the products A[i] * B[c + 1 - i], counted
\* as the size of the bag that holds each i that many times.
BigMul(A, B) ==
  LET Product(c, i) == A[i] * B[c + 1 - i]
      Column(c) ==
        LET lo == IF c > Len(B) THEN c + 1 - Len(B) ELSE 1
            hi == IF c < Len(A) THEN c ELSE Len(A)
        IN  BagCardinality([i \in {j \in lo..hi : Product(c, j) > 0} |-> Product(c, i)])
  IN  IF A = <<>> \/ B = <<>> THEN <<>>
      ELSE BigOfColumns([c \in 1..(Len(A) + Len(B) - 1) |-> Column(c)])

\* A <= B: the numbers are equal, or A has the smaller digit where they
\* first differ from the top (k counts the digits from the top).
BigLeq(A, B) ==
  LET Smaller(k) == A[Len(A) + 1 - k] < B[Len(A) + 1 - k]
      First(differ) == CHOOSE k \in differ : \A m \in differ : k <= m
      Decided(differ) == differ = {} \/ Smaller(First(differ))
  IN  IF Len(A) # Len(B) THEN Len(A) < Len(B)
      ELSE Decided({k \in 1..Len(A) : A[Len(A) + 1 - k] # B[Len(A) + 1 - k]})

\* k^n by squaring; the power for half the exponent is a value before it is
\* squared.
RECURSIVE BigPow(_, _)
BigPow(k, n) ==
  IF n = 0 THEN <<1>>
  ELSE CHOOSE power \in {BigMul(BigMul(half, half), IF n % 2 = 1 THEN BigOf(k) ELSE <<1>>) :
                           half \in {BigPow(k, n \div 2)}} : TRUE

\* The largest q in 0 .. MaxInt with q * Y <= X, for Y > 0, found eight bits
\* at a time from the top.  Search(Z, lo, hi) is the largest q in lo .. hi
\* with q * Z <= X, and Next8(q, unit) the largest q' in 256 * q .. 256 * q +
\* 255 with q' * unit * Y <= X.
BigQuotient(X, Y) ==
  LET RECURSIVE Search(_, _, _)
      Search(Z, lo, hi) ==
        IF lo = hi THEN lo
        ELSE LET mid == hi - (hi - lo) \div 2
             IN  IF BigLeq(BigMul(Z, BigOf(mid)), X)
                   THEN Search(Z, mid, hi)
                   ELSE Search(Z, lo, mid - 1)
      Next8(q, unit) == Search(BigMul(Y, BigOf(unit)), q * 256, q * 256 + 255)
  IN  IF BigLeq(Y, X)
        THEN Next8(Next8(Next8(Next8(0, 256 * 256 * 256), 256 * 256), 256), 1)
        ELSE 0

\* Math.round(N / D) for D > 0, the quotient taken exactly.
BigRoundRatio(N, D) ==
  BigQuotient(BigAdd(BigMul(N, BigOf(2)), D), BigMul(D, BigOf(2)))

\* x * y for naturals, or TooLarge when the product, or a factor, is beyond
\* the integers TLC computes with.
TooLarge == -1

Times(x, y) ==
  IF x < 0 \/ y < 0 THEN TooLarge
  ELSE IF y = 0 \/ x <= MaxInt \div y THEN x * y
  ELSE TooLarge

RECURSIVE Power(_, _)
Power(k, n) ==
  IF n = 0 THEN 1
  ELSE LET half == Power(k, n \div 2)
           square == Times(half, half)
       IN  IF n % 2 = 1 THEN Times(square, k) ELSE square

\* The annual rate is given in tenths of a percent; annualRate / 100 / 12 is
\* then the fraction annualRate / RateDen.
RateDen == 10 * 100 * 12

\* `payment`, the value of the calculator before it is rounded, as the
\* fraction n / d of a number of paise, the factors that the principal and
\* the rate share taken out.
PaymentRatio(principal, annualRate, termMonths) ==
  LET g == GCD(annualRate, RateDen)
      a == annualRate \div g            \* monthlyRate = a / b
      b == RateDen \div g
      up == BigPow(a + b, termMonths)   \* (1 + monthlyRate)^n = up / b^n
      dn == BigPow(b, termMonths)
      h == GCD(principal, Paisa * b)
  IN  IF annualRate = 0
        THEN [n |-> BigOf(principal), d |-> BigOf(Paisa * termMonths)]
        ELSE [n |-> BigMul(BigOf(principal \div h), BigMul(up, BigOf(a))),
              d |-> BigMul(BigSub(up, dn), BigOf((Paisa * b) \div h))]

\* calculateMonthlyPayment with the payment cut off after two decimals instead
\* of rounded to them.
calculateMonthlyPaymentTruncated(principal, annualRate, termMonths) ==
  LET payment == PaymentRatio(principal, annualRate, termMonths)
  IN  BigQuotient(payment.n, payment.d) * Paisa

\* SmallPaymentRatio with a principal at no interest spread over twelve months,
\* whatever the term.
SmallPaymentRatioOverYear(principal, annualRate, termMonths) ==
  IF annualRate = 0
    THEN [n |-> principal, d |-> Paisa * 12, fits |-> TRUE]
    ELSE [n |-> TooLarge, d |-> TooLarge, fits |-> FALSE]

\* PaymentRatio on the integers TLC computes with: fits tells whether they
\* suffice for the fraction and for rounding it.
SmallPaymentRatio(principal, annualRate, termMonths) ==
  LET g == GCD(annualRate, RateDen)
      a == annualRate \div g
      b == RateDen \div g
      up == Power(a + b, termMonths)
      dn == Power(b, termMonths)
      h == GCD(principal, Paisa * b)
      n == IF annualRate = 0 THEN principal
           ELSE Times(Times(principal \div h, a), up)
      d == IF annualRate = 0 THEN Paisa * termMonths
           ELSE IF up = TooLarge THEN TooLarge
           ELSE Times((Paisa * b) \div h, up - dn)
  IN  [n |-> n, d |-> d,
       fits |-> Times(n, 4) # TooLarge /\ Times(d, 4) # TooLarge]

\* calculateMonthlyPayment(principal, annualRate, termMonths)
calculateMonthlyPayment(principal, annualRate, termMonths) ==
  LET small == SmallPaymentRatio(principal, annualRate, termMonths)
      payment == PaymentRatio(principal, annualRate, termMonths)
  IN  IF small.fits
        THEN RoundRatio(small.n, small.d) * Paisa
        ELSE BigRoundRatio(payment.n, payment.d) * Paisa

----------------------------------------------------------------------------
(* Documents *)

\* `null`, the result of a findOne that matches nothing.
NullLoan ==
  [loanId |-> 0, customerId |-> "", amount |-> 0, interestRate |-> 0, term |-> 0,
   status |-> "null", monthlyPayment |-> 0, totalAmount |-> 0, remainingBalance |-> 0]

\* LoanFieldsValid without the maximum of the interest rate.
LoanFieldsValidNoRateMax(customerId, amount, interestRate, term) ==
  /\ customerId # ""
  /\ amount >= 1000 * Rupee
  /\ (amount + Rupee - 1) \div Rupee <= 100000000
  /\ interestRate >= 1
  /\ term >= 1 /\ term <= 360

\* loanSchema's validators of the fields a create-loan request supplies.
LoanFieldsValid(customerId, amount, interestRate, term) ==
  /\ customerId # ""
  /\ amount >= 1000 * Rupee
  /\ (amount + Rupee - 1) \div Rupee <= 100000000   \* amount <= 100000000 rupees
  /\ interestRate >= 1 /\ interestRate <= 500
  /\ term >= 1 /\ term <= 360

\* loanSchema's validators, run by save().
LoanSchemaValid(doc) ==
  /\ LoanFieldsValid(doc.customerId, doc.amount, doc.interestRate, doc.term)
  /\ doc.status \in {"ACTIVE", "PAID_OFF"}
  /\ doc.monthlyPayment >= 1 * Rupee
  /\ doc.totalAmount >= 1 * Rupee
  /\ doc.remainingBalance >= 0

\* paymentSchema's validators, run by save().
PaymentSchemaValid(doc) ==
  /\ doc.amount >= 1 * Rupee
  /\ doc.paymentType \in {"EMI", "LUMP_SUM"}
  /\ doc.paymentMethod \in {"cash", "check", "bank_transfer", "credit_card", "debit_card"}
  /\ doc.status \in {"pending", "completed", "failed"}

----------------------------------------------------------------------------
VARIABLES
  server,      \* the process: startServer's position, and whether the store is connected
  customers,   \* the stored Customer documents
  loans,       \* loanId -> the stored Loan document, NullLoan when there is none
  payments,    \* the stored Payment documents
  creqs,       \* create-customer requests: each handler's position and locals
  lreqs,       \* create-loan requests: each handler's position and locals
  preqs,       \* create-payment requests: each handler's position and locals
  dash,        \* the dashboard request: the handler's position and locals
  quote,       \* an application of the payment calculator: its arguments and results
  form,        \* the loan form of the client: its fields, its preview and its submission
  clear,       \* the clear-database request: the handler's position and locals
  gets,        \* GET requests: the route that took each, and its answer
  ui           \* the App component of the client: its notification and the timers set for it

vars == <<server, customers, loans, payments, creqs, lreqs, preqs, dash, quote, form, clear, gets, ui>>

\* A customer the store already holds when the server starts.
StoredCustomers ==
  {[customerId |-> "CUST-1", name |-> "Raj", email |-> "raj@example.com"]}

NewCustReq ==
  [pc |-> "new", name |-> "", email |-> "", resp |-> "", sent |-> 0, error |-> ""]

NewLoanReq ==
  [pc |-> "new", customerId |-> "", amount |-> 0, interestRate |-> 0, term |-> 0,
   loan |-> NullLoan, resp |-> "", sent |-> 0, error |-> ""]

NewPayReq ==
  [pc |-> "new", loanId |-> 0, amount |-> 0, paymentType |-> "", paymentMethod |-> "",
   read |-> NullLoan, loan |-> NullLoan, resp |-> "", sent |-> 0, error |-> "",
   updates |-> 0]

\* The statistics the dashboard answers with.
NoStats ==
  [totalCustomers |-> 0, totalLoans |-> 0, activeLoans |-> 0, paidOffLoans |-> 0,
   totalLoanAmount |-> 0, totalCollected |-> 0]

\* The queries the dashboard awaits together with Promise.all.
DashQueries ==
  {"totalCustomers", "totalLoans", "activeLoans", "paidOffLoans", "totalLoanAmount",
   "totalCollected"}

\* The results of the queries before any has run: a count is a number, the
\* result of an aggregate is an array.
NoResults ==
  [k \in DashQueries |-> IF k \in {"totalLoanAmount", "totalCollected"} THEN <<>> ELSE 0]

NewDashReq ==
  [pc |-> "new", pending |-> {}, results |-> NoResults, stats |-> NoStats,
   resp |-> "", sent |-> 0, error |-> ""]

\* The process as `node` starts it: startServer() has been called.
Starting == [pc |-> "connecting", connected |-> FALSE]

\* The process once app.listen has run.
Listening == [pc |-> "listening", connected |-> TRUE]

\* The collections of the store, in the order the clear handler takes them.
Collections == <<"customers", "loans", "payments">>

NewClearReq ==
  [pc |-> "new", collections |-> {}, results |-> [c \in {} |-> 0],
   resp |-> "", sent |-> 0, error |-> ""]

NewGetReq == [pc |-> "new", path |-> <<>>, handler |-> "", resp |-> "", sent |-> 0]

\* The App component as it is mounted: the time in seconds, currentView,
\* notification (0 is null, k the k-th notification shown) and when it was
\* shown, the pending timers of handleNotification (each with the time it is
\* due), and the pending timer of the Notification component (0: none).
NewUi ==
  [now |-> 0, view |-> "dashboard", notification |-> 0, shownAt |-> 0, shown |-> 0,
   appTimers |-> {}, effectTimer |-> 0]

\* calculatedPayment of the loan form when it is null.
NoPreview ==
  [shown |-> FALSE, monthlyPayment |-> 0, totalAmount |-> 0, totalInterest |-> 0]

\* The loan form as it is mounted: formData, calculatedPayment, the fields
\* validateForm found in error, loading, and the request it has sent.
NewForm ==
  [customerId |-> "", amount |-> EmptyText, interestRate |-> EmptyText,
   term |-> EmptyText, calculatedPayment |-> NoPreview, errors |-> {},
   loading |-> FALSE, request |-> 0, outcome |-> ""]

\* The calculator has not been applied.
NoQuote ==
  [pc |-> "none", principal |-> 0, annualRate |-> 0, termMonths |-> 0,
   monthlyPayment |-> 0, totalAmount |-> 0]

Init ==
  /\ server = Starting
  /\ customers = StoredCustomers
  /\ loans = [l \in LoanReqIds |-> NullLoan]
  /\ payments = {}
  /\ creqs = [c \in CustReqIds |-> NewCustReq]
  /\ lreqs = [q \in LoanReqIds |-> NewLoanReq]
  /\ preqs = [r \in PayReqIds |-> NewPayReq]
  /\ dash = NewDashReq
  /\ quote = NoQuote
  /\ form = NewForm
  /\ clear = NewClearReq
  /\ gets = [g \in GetReqIds |-> NewGetReq]
  /\ ui = NewUi

\* `return res.status(..).json(..)`: the handler sends one response and ends.
Respond(req, resp) == [req EXCEPT !.pc = "done", !.resp = resp, !.sent = @ + 1]

\* Catch with a catch block that logs the error and sends nothing.
CatchSilent(req, resp, error) == [req EXCEPT !.pc = "done", !.error = error]

\* The handler's catch block: it answers with the error's message.
Catch(req, resp, error) == [Respond(req, resp) EXCEPT !.error = error]

----------------------------------------------------------------------------
(* startServer *)

\* ConnectResult with a catch block that logs the error and returns.
ConnectResultNoExit(ok) == [pc |-> "connected", connected |-> ok]

\* What the process does on the outcome of mongoose.connect: connectDB
\* returns, or its catch block calls process.exit(1).
ConnectResult(ok) ==
  IF ok THEN [pc |-> "connected", connected |-> TRUE]
        ELSE [pc |-> "exited", connected |-> FALSE]

\* await connectDB(): the store accepts the connection or refuses it.
Connect ==
  /\ server.pc = "connecting"
  /\ \E ok \in BOOLEAN : server' = ConnectResult(ok)
  /\ UNCHANGED <<customers, loans, payments, creqs, lreqs, preqs, dash, quote, form, clear, gets, ui>>

\* app.listen(PORT, ..), the statement after `await connectDB()`.
Listen ==
  /\ server.pc = "connected"
  /\ server' = [server EXCEPT !.pc = "listening"]
  /\ UNCHANGED <<customers, loans, payments, creqs, lreqs, preqs, dash, quote, form, clear, gets, ui>>

----------------------------------------------------------------------------
(* POST /api/v1/customers *)

CustNameInputs == {"Raj", "R", ""}
CustEmailInputs ==
  {"raj@example.com", "Raj@Example.com", " raj@example.com", "new@example.com",
   " New@Example.com", "nobody", ""}
CustPhoneInputs == {"+91 98765-43210", ""}
CustAddressInputs == {"12 MG Road"}

\* The handler up to its first await: the check of the required fields.
CustBodyCheck(name, email, phone, address) ==
  IF name = "" \/ email = "" \/ phone = "" \/ address = ""
    THEN "400 required"
    ELSE "ok"

\* A request with the given body arrives at a listening server; request
\* slots are used in order.
CustArrive(c, name, email, phone, address) ==
  /\ server.pc = "listening"
  /\ creqs[c].pc = "new"
  /\ \A p \in CustReqIds : p < c => creqs[p].pc # "new"
  /\ LET check == CustBodyCheck(name, email, phone, address)
     IN  creqs' = [creqs EXCEPT ![c] =
           IF check = "ok"
             THEN [@ EXCEPT !.pc = "findCustomer", !.name = name, !.email = email]
             ELSE Respond(@, check)]
  /\ UNCHANGED <<server, customers, loans, payments, lreqs, preqs, dash, quote, form, clear, gets, ui>>

CustRequest(c) ==
  /\ creqs[c].pc = "new"
  /\ \E name \in CustNameInputs, email \in CustEmailInputs,
        phone \in CustPhoneInputs, address \in CustAddressInputs :
       CustArrive(c, name, email, phone, address)

\* Customer.findOne({ email: email.toLowerCase() }) and the continuation to
\* customer.save().
CustFindOne(c) ==
  /\ creqs[c].pc = "findCustomer"
  /\ creqs' = [creqs EXCEPT ![c] =
       IF \E d \in customers : d.email = ToLowerCase(creqs[c].email)
         THEN Respond(@, "400 exists")
         ELSE [@ EXCEPT !.pc = "saveCustomer"]]
  /\ UNCHANGED <<server, customers, loans, payments, lreqs, preqs, dash, quote, form, clear, gets, ui>>

\* The customerId the schema's default gives the document of request c: a
\* fresh id.
NewCustomerId(c) == <<"CUST-A", "CUST-B", "CUST-C", "CUST-D">>[c]

\* The Customer document the handler builds.
NewCustomerDoc(c) ==
  [customerId |-> NewCustomerId(c), name |-> Trim(creqs[c].name),
   email |-> Trim(ToLowerCase(creqs[c].email))]

\* The strings of the requests that match /^\S+@\S+\.\S+$/.
MatchesEmail(s) == s \in {"raj@example.com", "new@example.com"}

\* The strings of the requests that are at least 2 characters long.
MinLength2(s) == s \in {"Raj"}

\* customerSchema's validators, run by save().
CustomerSchemaValid(doc) ==
  /\ doc.customerId # ""
  /\ doc.name # "" /\ MinLength2(doc.name)
  /\ doc.email # "" /\ MatchesEmail(doc.email)

\* DuplicateKey with the unique index on customerId only.
DuplicateKeyIdOnly(collection, doc) ==
  \E d \in collection : d.customerId = doc.customerId

\* The store's unique indexes on customerId and on email refuse the insert of
\* a document that has the key of a stored one.
DuplicateKey(collection, doc) ==
  \E d \in collection : d.customerId = doc.customerId \/ d.email = doc.email

\* customer.save(): the schema's validation, then the insert, which the store
\* may fail and its unique indexes may refuse; the catch block answers 400.
CustSave(c) ==
  /\ creqs[c].pc = "saveCustomer"
  /\ LET doc == NewCustomerDoc(c)
     IN  \E dbOk \in BOOLEAN :
           IF ~CustomerSchemaValid(doc)
             THEN /\ creqs' = [creqs EXCEPT ![c] = Catch(@, "400 failed", "ValidationError")]
                  /\ UNCHANGED customers
           ELSE IF ~dbOk \/ DuplicateKey(customers, doc)
             THEN /\ creqs' = [creqs EXCEPT ![c] = Catch(@, "400 failed", "MongoError")]
                  /\ UNCHANGED customers
           ELSE /\ customers' = customers \cup {doc}
                /\ creqs' = [creqs EXCEPT ![c] = Respond(@, "201")]
  /\ UNCHANGED <<server, loans, payments, lreqs, preqs, dash, quote, form, clear, gets, ui>>

----------------------------------------------------------------------------
(* POST /api/v1/loans *)

LoanCustomerInputs == {"CUST-1", "CUST-9", ""}
LoanAmountInputs == {Num(1000), Num(999), Text, Undefined}
LoanRateInputs == {Num(120)}
LoanTermInputs == {Num(2)}

\* The handler up to its first await: the checks of the request body.
LoanBodyCheck(customerId, amount, interestRate, term) ==
  IF customerId = "" \/ Falsy(amount) \/ Falsy(interestRate) \/ Falsy(term)
    THEN "400 required"
  ELSE IF IsNaN(amount) \/ IsNaN(interestRate) \/ IsNaN(term)
    THEN "400 numbers"
  ELSE IF amount.n < 1000
    THEN "400 minimum"
  ELSE "ok"

\* NewLoanDoc with the balance started at the principal instead of the total.
NewLoanDocPrincipalBalance(q, customerId, amount, interestRate, term) ==
  LET monthlyPayment == calculateMonthlyPayment(amount * Rupee, interestRate, term)
      totalAmount == Round2(monthlyPayment * term)
  IN  [loanId |-> q, customerId |-> customerId, amount |-> amount * Rupee,
       interestRate |-> interestRate, term |-> term, status |-> "ACTIVE",
       monthlyPayment |-> monthlyPayment, totalAmount |-> totalAmount,
       remainingBalance |-> amount * Rupee]

\* The Loan document the handler builds; its loanId is the schema's default,
\* a fresh id.
NewLoanDoc(q, customerId, amount, interestRate, term) ==
  LET monthlyPayment == calculateMonthlyPayment(amount * Rupee, interestRate, term)
      totalAmount == Round2(monthlyPayment * term)
  IN  [loanId |-> q, customerId |-> customerId, amount |-> amount * Rupee,
       interestRate |-> interestRate, term |-> term, status |-> "ACTIVE",
       monthlyPayment |-> monthlyPayment, totalAmount |-> totalAmount,
       remainingBalance |-> totalAmount]

\* A request with the given body arrives at a listening server; request
\* slots are used in order.
LoanReceive(q, customerId, amount, interestRate, term) ==
  /\ server.pc = "listening"
  /\ lreqs[q].pc = "new"
  /\ \A p \in LoanReqIds : p < q => lreqs[p].pc # "new"
  /\ LET check == LoanBodyCheck(customerId, amount, interestRate, term)
     IN  lreqs' = [lreqs EXCEPT ![q] =
           IF check = "ok"
             THEN [@ EXCEPT !.pc = "findCustomer", !.customerId = customerId,
                     !.amount = amount.n, !.interestRate = interestRate.n,
                     !.term = term.n]
             ELSE Respond(@, check)]
  /\ UNCHANGED <<server, customers, loans, payments, creqs, preqs, dash, quote, clear, gets, ui>>

\* The request of a client other than the loan form.
LoanArrive(q, customerId, amount, interestRate, term) ==
  /\ LoanReceive(q, customerId, amount, interestRate, term)
  /\ UNCHANGED form

LoanRequest(q) ==
  /\ lreqs[q].pc = "new"
  /\ \E customerId \in LoanCustomerInputs, amount \in LoanAmountInputs,
        interestRate \in LoanRateInputs, term \in LoanTermInputs :
       LoanArrive(q, customerId, amount, interestRate, term)

\* Customer.findOne({ customerId }) and the continuation to loan.save().
LoanFindCustomer(q) ==
  /\ lreqs[q].pc = "findCustomer"
  /\ lreqs' = [lreqs EXCEPT ![q] =
       IF \E c \in customers : c.customerId = lreqs[q].customerId
         THEN [@ EXCEPT !.pc = "saveLoan"]
         ELSE Respond(@, "404 customer")]
  /\ UNCHANGED <<server, customers, loans, payments, creqs, preqs, dash, quote, form, clear, gets, ui>>

\* The validation save() runs on the new Loan document.  A document whose
\* supplied fields fail their validators is invalid whatever its computed
\* fields are.
NewLoanValid(q, customerId, amount, interestRate, term) ==
  /\ LoanFieldsValid(customerId, amount * Rupee, interestRate, term)
  /\ LoanSchemaValid(NewLoanDoc(q, customerId, amount, interestRate, term))

\* loan.save(): the schema's validation, then the insert, which the store may
\* fail; the catch block answers 400.
LoanSave(q) ==
  /\ lreqs[q].pc = "saveLoan"
  /\ LET req == lreqs[q]
         valid == NewLoanValid(q, req.customerId, req.amount, req.interestRate,
                               req.term)
         doc == NewLoanDoc(q, req.customerId, req.amount, req.interestRate,
                           req.term)
     IN  \E dbOk \in BOOLEAN :
           IF ~valid
             THEN /\ lreqs' = [lreqs EXCEPT ![q] = Catch(@, "400 failed", "ValidationError")]
                  /\ UNCHANGED loans
           ELSE IF ~dbOk
             THEN /\ lreqs' = [lreqs EXCEPT ![q] = Catch(@, "400 failed", "MongoError")]
                  /\ UNCHANGED loans
           ELSE /\ loans' = [loans EXCEPT ![q] = doc]
                /\ lreqs' = [lreqs EXCEPT ![q] = Respond([@ EXCEPT !.loan = doc], "201")]
  /\ UNCHANGED <<server, customers, payments, creqs, preqs, dash, quote, form, clear, gets, ui>>

----------------------------------------------------------------------------
(* POST /api/v1/loans/:loanId/payments *)

\* A loanId that names no loan.
UnknownLoanId == 0

PayLoanInputs == LoanReqIds \cup {UnknownLoanId}
PayTypeInputs == {"emi", ""}
PayMethodInputs == {"Cash", ""}

\* The amounts a client may send for loan l: the stored balance, a paisa
\* more, 0.504 less (an amount finer than a paisa), and amounts that do not
\* depend on the loan (400.00, 0, -1.00, and a text that is no number).
PayAmountInputs(l) ==
  LET b == IF l \in LoanReqIds THEN loans[l].remainingBalance ELSE 0
  IN  {Num(b), Num(b + Paisa), Num(b - (Rupee \div 2 + 4))}
        \cup {Num(400 * Rupee), Num(0), Num(-Rupee), Text, Undefined}

\* The handler up to its first await: the checks of the request body.
PayBodyCheck(amount, paymentType, paymentMethod) ==
  IF Falsy(amount) \/ paymentType = "" \/ paymentMethod = ""
    THEN "400 required"
  ELSE IF IsNaN(amount) \/ amount.n <= 0
    THEN "400 positive"
  ELSE "ok"

\* A request with the given body arrives at a listening server; request
\* slots are used in order.
PayArrive(r, loanId, amount, paymentType, paymentMethod) ==
  /\ server.pc = "listening"
  /\ preqs[r].pc = "new"
  /\ \A p \in PayReqIds : p < r => preqs[p].pc # "new"
  /\ LET check == PayBodyCheck(amount, paymentType, paymentMethod)
     IN  preqs' = [preqs EXCEPT ![r] =
           IF check = "ok"
             THEN [@ EXCEPT !.pc = "findLoan", !.loanId = loanId,
                     !.amount = amount.n, !.paymentType = paymentType,
                     !.paymentMethod = paymentMethod]
             ELSE Respond(@, check)]
  /\ UNCHANGED <<server, customers, loans, payments, creqs, lreqs, dash, quote, form, clear, gets, ui>>

PayRequest(r) ==
  /\ preqs[r].pc = "new"
  /\ \E loanId \in PayLoanInputs, paymentType \in PayTypeInputs,
        paymentMethod \in PayMethodInputs :
       \E amount \in PayAmountInputs(loanId) :
         PayArrive(r, loanId, amount, paymentType, paymentMethod)

\* CheckLoan without its overpayment check.
CheckLoanNoOverpay(loan, amount) ==
  IF loan = NullLoan THEN "404 loan"
  ELSE IF loan.status = "PAID_OFF" THEN "400 paid off"
  ELSE "ok"

\* CheckLoan with the overpayment check ahead of the check of the status.
CheckLoanOverpayFirst(loan, amount) ==
  IF loan = NullLoan THEN "404 loan"
  ELSE IF amount > loan.remainingBalance THEN "400 exceeds"
  ELSE IF loan.status = "PAID_OFF" THEN "400 paid off"
  ELSE "ok"

\* The checks on the loan the handler has read.
CheckLoan(loan, amount) ==
  IF loan = NullLoan THEN "404 loan"
  ELSE IF loan.status = "PAID_OFF" THEN "400 paid off"
  ELSE IF amount > loan.remainingBalance THEN "400 exceeds"
  ELSE "ok"

\* AfterCheck with the `return` of a rejection missing: the response is sent
\* and the handler goes on.
AfterCheckNoReturn(req, loan, outcome) ==
  IF outcome \in {"ok", "400 exceeds"}
    THEN [req EXCEPT !.pc = "savePayment", !.read = loan, !.loan = loan,
                     !.resp = IF outcome = "ok" THEN @ ELSE outcome,
                     !.sent = IF outcome = "ok" THEN @ ELSE @ + 1]
    ELSE Respond([req EXCEPT !.read = loan, !.loan = loan], outcome)

\* What the handler does on the outcome of the checks: a rejection is
\* `return res.status(..).json(..)`; otherwise it goes on to payment.save().
AfterCheck(req, loan, outcome) ==
  IF outcome = "ok"
    THEN [req EXCEPT !.pc = "savePayment", !.read = loan, !.loan = loan]
    ELSE Respond([req EXCEPT !.read = loan, !.loan = loan], outcome)

\* Loan.findOne({ loanId }) and the continuation to payment.save().
PayFindLoan(r) ==
  /\ preqs[r].pc = "findLoan"
  /\ LET loan == IF preqs[r].loanId \in LoanReqIds THEN loans[preqs[r].loanId]
                 ELSE NullLoan
     IN  preqs' = [preqs EXCEPT ![r] =
           AfterCheck(@, loan, CheckLoan(loan, preqs[r].amount))]
  /\ UNCHANGED <<server, customers, loans, payments, creqs, lreqs, dash, quote, form, clear, gets, ui>>

\* The Payment document the handler builds; its paymentId is the schema's
\* default, a fresh id.
NewPaymentDoc(r) ==
  [paymentId |-> r, loanId |-> preqs[r].loanId, amount |-> preqs[r].amount,
   paymentType |-> ToUpperCase(preqs[r].paymentType),
   paymentMethod |-> ToLowerCase(preqs[r].paymentMethod), status |-> "completed"]

\* NewBalance with the sign of the amount slipped.
NewBalanceAdds(remainingBalance, amount) == Round2(remainingBalance + amount)

\* Math.round((loan.remainingBalance - Number(amount)) * 100) / 100
NewBalance(remainingBalance, amount) == Round2(remainingBalance - amount)

\* UpdatedLoan with the payment taken off the loan's total as well.
UpdatedLoanLowersTotal(loan, amount) ==
  LET newBalance == NewBalance(loan.remainingBalance, amount)
  IN  IF newBalance <= 0
        THEN [loan EXCEPT !.status = "PAID_OFF", !.remainingBalance = 0]
        ELSE [loan EXCEPT !.remainingBalance = newBalance,
                          !.totalAmount = @ - amount]

\* The handler's update of its loan document after payment.save().
UpdatedLoan(loan, amount) ==
  LET newBalance == NewBalance(loan.remainingBalance, amount)
  IN  IF newBalance <= 0
        THEN [loan EXCEPT !.status = "PAID_OFF", !.remainingBalance = 0]
        ELSE [loan EXCEPT !.remainingBalance = newBalance]

\* InsertPayment as an upsert keyed on the loan: the new document replaces
\* the stored Payments of its loan.
InsertPaymentReplacing(collection, doc) ==
  {d \in collection : d.loanId # doc.loanId} \cup {doc}

\* The payments collection after the insert of a document.
InsertPayment(collection, doc) == collection \cup {doc}

\* payment.save(): the schema's validation, then the insert, which the store
\* may fail; on success the continuation to loan.save().
PaySavePayment(r) ==
  /\ preqs[r].pc = "savePayment"
  /\ \E dbOk \in BOOLEAN :
       IF ~PaymentSchemaValid(NewPaymentDoc(r))
         THEN /\ preqs' = [preqs EXCEPT ![r] = Catch(@, "400 failed", "ValidationError")]
              /\ UNCHANGED payments
       ELSE IF ~dbOk
         THEN /\ preqs' = [preqs EXCEPT ![r] = Catch(@, "400 failed", "MongoError")]
              /\ UNCHANGED payments
       ELSE /\ payments' = InsertPayment(payments, NewPaymentDoc(r))
            /\ preqs' = [preqs EXCEPT ![r].pc = "saveLoan",
                            ![r].loan = UpdatedLoan(@, preqs[r].amount)]
  /\ UNCHANGED <<server, customers, loans, creqs, lreqs, dash, quote, form, clear, gets, ui>>

\* The paths of the document that save() writes: those the handler changed
\* since the document was read.
ModifiedPaths(read, doc) == {p \in DOMAIN doc : doc[p] # read[p]}

\* The stored document after the update save() sends: $set of the modified paths.
ApplySet(stored, doc, paths) ==
  LET v(p) == IF p \in paths THEN doc[p] ELSE stored[p]
  IN  [loanId |-> v("loanId"), customerId |-> v("customerId"), amount |-> v("amount"),
       interestRate |-> v("interestRate"), term |-> v("term"), status |-> v("status"),
       monthlyPayment |-> v("monthlyPayment"), totalAmount |-> v("totalAmount"),
       remainingBalance |-> v("remainingBalance")]

\* loan.save(): the schema's validation, then the update of the stored
\* document, which the store may fail; then the 201 response.
PaySaveLoan(r) ==
  /\ preqs[r].pc = "saveLoan"
  /\ LET l == preqs[r].loanId
         doc == preqs[r].loan
         paths == ModifiedPaths(preqs[r].read, doc)
     IN  \E dbOk \in BOOLEAN :
           IF ~LoanSchemaValid(doc)
             THEN /\ preqs' = [preqs EXCEPT ![r] = Catch(@, "400 failed", "ValidationError")]
                  /\ UNCHANGED loans
           ELSE IF paths # {} /\ (~dbOk \/ loans[l] = NullLoan)
             THEN /\ preqs' = [preqs EXCEPT ![r] = Catch(@, "400 failed", "MongoError")]
                  /\ UNCHANGED loans
           ELSE /\ loans' = [loans EXCEPT ![l] = ApplySet(@, doc, paths)]
                /\ preqs' = [preqs EXCEPT ![r] =
                     Respond([@ EXCEPT !.updates = IF paths # {} THEN @ + 1 ELSE @],
                             "201")]
  /\ UNCHANGED <<server, customers, payments, creqs, lreqs, dash, quote, form, clear, gets, ui>>

----------------------------------------------------------------------------
(* GET /api/v1/dashboard *)

\* The request arrives at a listening server; the handler starts its six
\* queries.
DashRequest ==
  /\ server.pc = "listening"
  /\ dash.pc = "new"
  /\ dash' = [dash EXCEPT !.pc = "queries", !.pending = DashQueries]
  /\ UNCHANGED <<server, customers, loans, payments, creqs, lreqs, preqs, quote, form, clear, gets, ui>>

\* The stored Loan documents.
LoanDocs == {loans[l] : l \in {i \in LoanReqIds : loans[i] # NullLoan}}

\* $group: { _id: null, total: { $sum: '$field' } }: one row with the sum
\* over the documents, no row when there is no document.
RECURSIVE SumField(_, _)
SumField(docs, field) ==
  IF docs = {} THEN 0
  ELSE LET d == CHOOSE d \in docs : TRUE
       IN  d[field] + SumField(docs \ {d}, field)

Aggregate(docs, field) ==
  IF docs = {} THEN <<>> ELSE <<[total |-> SumField(docs, field)]>>

\* QueryResult with the loans' balances summed in place of their amounts.
QueryResultSumsBalance(k) ==
  CASE k = "totalCustomers" -> Cardinality(customers)
    [] k = "totalLoans" -> Cardinality(LoanDocs)
    [] k = "activeLoans" -> Cardinality({d \in LoanDocs : d.status = "ACTIVE"})
    [] k = "paidOffLoans" -> Cardinality({d \in LoanDocs : d.status = "PAID_OFF"})
    [] k = "totalLoanAmount" -> Aggregate(LoanDocs, "remainingBalance")
    [] k = "totalCollected" ->
         Aggregate({d \in payments : d.status = "completed"}, "amount")

\* What the store answers to query k of the dashboard, from its contents at
\* the moment it runs the query.
QueryResult(k) ==
  CASE k = "totalCustomers" -> Cardinality(customers)
    [] k = "totalLoans" -> Cardinality(LoanDocs)
    [] k = "activeLoans" -> Cardinality({d \in LoanDocs : d.status = "ACTIVE"})
    [] k = "paidOffLoans" -> Cardinality({d \in LoanDocs : d.status = "PAID_OFF"})
    [] k = "totalLoanAmount" -> Aggregate(LoanDocs, "amount")
    [] k = "totalCollected" ->
         Aggregate({d \in payments : d.status = "completed"}, "amount")

\* The store runs one of the pending queries, in any order; a query that
\* fails rejects Promise.all and the catch block answers 500.  When the last
\* result is in, the handler goes on to its next await.
DashQuery(k) ==
  /\ dash.pc = "queries"
  /\ k \in dash.pending
  /\ \E dbOk \in BOOLEAN :
       dash' = IF ~dbOk
                 THEN Catch([dash EXCEPT !.pending = {}], "500 failed", "MongoError")
                 ELSE [dash EXCEPT !.pending = @ \ {k},
                                   !.results[k] = QueryResult(k),
                                   !.pc = IF dash.pending = {k} THEN "recentLoans" ELSE @]
  /\ UNCHANGED <<server, customers, loans, payments, creqs, lreqs, preqs, quote, form, clear, gets, ui>>

\* Loan.find({}).sort(..).limit(5)
DashRecentLoans ==
  /\ dash.pc = "recentLoans"
  /\ \E dbOk \in BOOLEAN :
       dash' = IF ~dbOk THEN Catch(dash, "500 failed", "MongoError")
                        ELSE [dash EXCEPT !.pc = "recentPayments"]
  /\ UNCHANGED <<server, customers, loans, payments, creqs, lreqs, preqs, quote, form, clear, gets, ui>>

\* `result[0]?.total || 0` on the result of an aggregate.
TotalOrZero(result) == IF result = <<>> THEN 0 ELSE result[1].total

\* The stats of the response, from the results of the queries.
StatsOf(results) ==
  [totalCustomers |-> results["totalCustomers"], totalLoans |-> results["totalLoans"],
   activeLoans |-> results["activeLoans"], paidOffLoans |-> results["paidOffLoans"],
   totalLoanAmount |-> TotalOrZero(results["totalLoanAmount"]),
   totalCollected |-> TotalOrZero(results["totalCollected"])]

\* Payment.find({ status: 'completed' }).sort(..).limit(5), then the response.
DashRecentPayments ==
  /\ dash.pc = "recentPayments"
  /\ \E dbOk \in BOOLEAN :
       dash' = IF ~dbOk THEN Catch(dash, "500 failed", "MongoError")
                        ELSE Respond([dash EXCEPT !.stats = StatsOf(dash.results)], "200")
  /\ UNCHANGED <<server, customers, loans, payments, creqs, lreqs, preqs, quote, form, clear, gets, ui>>

----------------------------------------------------------------------------
(* POST /api/v1/database/clear *)

\* req.body.collections: absent, or an array of names.
ClearBodyInputs ==
  {[given |-> FALSE, collections |-> {}]}
    \cup {[given |-> TRUE, collections |-> cs] :
            cs \in SUBSET {Collections[i] : i \in 1..Len(Collections)}}

\* The handler's position before the first collection, from the i-th on,
\* that the request names: the deleteMany it awaits next, or "respond".
RECURSIVE NextToClear(_, _)
NextToClear(collections, i) ==
  IF i > Len(Collections) THEN "respond"
  ELSE IF Collections[i] \in collections THEN Collections[i]
  ELSE NextToClear(collections, i + 1)

\* The handler at the position `next`: waiting for a deleteMany, or sending
\* the results.
ClearGoOn(req, next) ==
  IF next = "respond" THEN Respond(req, "200") ELSE [req EXCEPT !.pc = next]

\* The request arrives at a listening server: the check of the body, and the
\* handler up to its first await.
ClearRequest ==
  /\ server.pc = "listening"
  /\ clear.pc = "new"
  /\ \E body \in ClearBodyInputs :
       clear' = IF ~body.given
                  THEN Respond(clear, "400 collections")
                  ELSE ClearGoOn([clear EXCEPT !.collections = body.collections],
                                 NextToClear(body.collections, 1))
  /\ UNCHANGED <<server, customers, loans, payments, creqs, lreqs, preqs, dash, quote, form, gets, ui>>

\* The number of documents in the collection.
CountOf(collection) ==
  CASE collection = "customers" -> Cardinality(customers)
    [] collection = "loans" -> Cardinality({l \in LoanReqIds : loans[l] # NullLoan})
    [] collection = "payments" -> Cardinality(payments)

\* Model.deleteMany({}) on the i-th collection, which the store may fail, and
\* the handler up to its next await or its response.
ClearDelete(i) ==
  /\ clear.pc = Collections[i]
  /\ \E dbOk \in BOOLEAN :
       IF ~dbOk
         THEN /\ clear' = Catch(clear, "500 failed", "MongoError")
              /\ UNCHANGED <<customers, loans, payments, gets, ui>>
         ELSE /\ clear' =
                   ClearGoOn([clear EXCEPT !.results =
                                [c \in DOMAIN @ \cup {Collections[i]} |->
                                   IF c = Collections[i] THEN CountOf(c) ELSE @[c]]],
                             NextToClear(clear.collections, i + 1))
              /\ customers' = IF i = 1 THEN {} ELSE customers
              /\ loans' = IF i = 2 THEN [l \in LoanReqIds |-> NullLoan] ELSE loans
              /\ payments' = IF i = 3 THEN {} ELSE payments
  /\ UNCHANGED <<server, creqs, lreqs, preqs, dash, quote, form, gets, ui>>

NextClear ==
  \/ ClearRequest
  \/ \E i \in 1..Len(Collections) : ClearDelete(i)
  \/ \E q \in LoanReqIds : LoanRequest(q) \/ LoanFindCustomer(q) \/ LoanSave(q)
  \/ \E r \in PayReqIds :
       PayRequest(r) \/ PayFindLoan(r) \/ PaySavePayment(r) \/ PaySaveLoan(r)

----------------------------------------------------------------------------
(* The routes of GET requests.  A path is the sequence of its segments; a
   pattern is a sequence of segments too, ":id" standing for any one segment
   and <<"*">> for any path. *)

\* The layers that take a GET request, in the order the file registers them.
\* express.static takes the request when the path names a file of dist and
\* passes it on otherwise.
Routes ==
  << [handler |-> "health", pattern |-> <<"health">>],
     [handler |-> "customers", pattern |-> <<"api", "v1", "customers">>],
     [handler |-> "loans", pattern |-> <<"api", "v1", "loans">>],
     [handler |-> "loan", pattern |-> <<"api", "v1", "loans", ":id">>],
     [handler |-> "loanPayments", pattern |-> <<"api", "v1", "loans", ":id", "payments">>],
     [handler |-> "dashboard", pattern |-> <<"api", "v1", "dashboard">>],
     [handler |-> "frontend", pattern |-> <<"*">>],
     [handler |-> "databaseTest", pattern |-> <<"api", "v1", "database", "test">>],
     [handler |-> "databaseStatus", pattern |-> <<"api", "v1", "database", "status">>],
     [handler |-> "databaseBackup", pattern |-> <<"api", "v1", "database", "backup">>],
     [handler |-> "staticAssets", pattern |-> <<"assets", "app.js">>],
     [handler |-> "notFoundOrFrontend", pattern |-> <<"*">>],
     [handler |-> "staticFiles", pattern |-> <<"assets", "app.js">>],
     [handler |-> "lastFrontend", pattern |-> <<"*">>] >>

Matches(pattern, path) ==
  \/ pattern = <<"*">>
  \/ /\ Len(pattern) = Len(path)
     /\ \A i \in 1..Len(pattern) : pattern[i] = ":id" \/ pattern[i] = path[i]

\* The first layer, from the i-th on, that takes the path; there is always one.
RECURSIVE Dispatch(_, _)
Dispatch(path, i) ==
  IF Matches(Routes[i].pattern, path) THEN Routes[i].handler
  ELSE Dispatch(path, i + 1)

GetPathInputs ==
  { <<"health">>, <<"api", "v1", "customers">>, <<"api", "v1", "loans">>,
    <<"api", "v1", "loans", "1">>, <<"api", "v1", "loans", "1", "payments">>,
    <<"api", "v1", "dashboard">>, <<"api", "v1", "database", "test">>,
    <<"api", "v1", "database", "status">>, <<"api", "v1", "database", "backup">>,
    <<"api", "v1", "reports">>, <<"assets", "app.js">>, <<"loans">>, <<>> }

\* req.path.startsWith('/api/')
StartsWithApi(path) == Len(path) >= 2 /\ path[1] = "api"

\* The handlers that answer without an await.
Immediate == {"health", "databaseTest"}

\* The answers a handler can give to the path: JSON with a status, or the
\* file it sends.  A query of the store may fail, which the handler's catch
\* block answers with 500; a file that cannot be sent goes to the error
\* middleware, which answers 500 as well.
Answers(handler, path) ==
  CASE handler \in Immediate -> {"json 200"}
    [] handler \in {"customers", "loans", "dashboard", "databaseStatus", "databaseBackup"} ->
         {"json 200", "json 500"}
    [] handler = "loan" ->
         {IF loans[1] = NullLoan THEN "json 404" ELSE "json 200", "json 500"}
    [] handler = "loanPayments" -> {"json 200", "json 500"}
    [] handler \in {"frontend", "lastFrontend"} -> {"index.html", "json 500"}
    [] handler = "notFoundOrFrontend" ->
         IF StartsWithApi(path) THEN {"json 404"} ELSE {"index.html", "json 500"}
    [] handler \in {"staticAssets", "staticFiles"} -> {"file"}

\* A GET request arrives at a listening server and the router hands it to
\* the first layer that takes its path; a handler without an await answers
\* at once.
GetRequest(g) ==
  /\ server.pc = "listening"
  /\ gets[g].pc = "new"
  /\ \A h \in GetReqIds : h < g => gets[h].pc # "new"
  /\ \E path \in GetPathInputs :
       LET handler == Dispatch(path, 1)
           req == [gets[g] EXCEPT !.path = path, !.handler = handler]
       IN  gets' = [gets EXCEPT ![g] =
             IF handler \in Immediate \/ (handler = "notFoundOrFrontend" /\ StartsWithApi(path))
               THEN Respond(req, CHOOSE a \in Answers(handler, path) : TRUE)
               ELSE [req EXCEPT !.pc = "handling"]]
  /\ UNCHANGED <<server, customers, loans, payments, creqs, lreqs, preqs, dash, quote, form, clear, ui>>

\* The handler's awaited queries, or the sending of the file, end and the
\* handler answers.
GetAnswer(g) ==
  /\ gets[g].pc = "handling"
  /\ \E answer \in Answers(gets[g].handler, gets[g].path) :
       gets' = [gets EXCEPT ![g] = Respond(@, answer)]
  /\ UNCHANGED <<server, customers, loans, payments, creqs, lreqs, preqs, dash, quote, form, clear, ui>>

NextRoute == \E g \in GetReqIds : GetRequest(g) \/ GetAnswer(g)

----------------------------------------------------------------------------
(* Notifications of the client: App (src/unnamed/part_003) and the
   Notification component (src/src/components/Notification.jsx) *)

\* The delay of both timers, in seconds.
Delay == 5

\* The effect of the Notification component, which runs after every render
\* of App (its onClose is a new function each time): the cleanup clears the
\* component's timer, and a new one is set when a notification is shown.
AfterRender(state) ==
  [state EXCEPT !.effectTimer = IF state.notification # 0 THEN state.now + Delay ELSE 0]

\* setNotification(value) and the render it causes; setting the value the
\* state already has causes none.
SetNotification(state, value) ==
  IF state.notification = value THEN state
  ELSE AfterRender([state EXCEPT !.notification = value, !.shownAt = state.now])

\* handleNotification(notificationData): a child reports something.
handleNotification ==
  /\ ui.shown < MaxNotes
  /\ LET k == ui.shown + 1
         timers == ui.appTimers \cup {[note |-> k, due |-> ui.now + Delay]}
     IN  ui' = SetNotification([ui EXCEPT !.shown = k, !.appTimers = timers], k)
  /\ UNCHANGED <<server, customers, loans, payments, creqs, lreqs, preqs, dash, quote, form, clear, gets>>

\* A timer of handleNotification fires: setNotification(null).
AppTimerFires ==
  /\ \E t \in ui.appTimers :
       /\ t.due <= ui.now
       /\ ui' = SetNotification([ui EXCEPT !.appTimers = @ \ {t}], 0)
  /\ UNCHANGED <<server, customers, loans, payments, creqs, lreqs, preqs, dash, quote, form, clear, gets>>

\* clearNotification(), the component's onClose.
clearNotification(state) == SetNotification(state, 0)

\* The timer of the Notification component fires: onClose().
EffectTimerFires ==
  /\ ui.effectTimer # 0
  /\ ui.effectTimer <= ui.now
  /\ ui' = clearNotification([ui EXCEPT !.effectTimer = 0])
  /\ UNCHANGED <<server, customers, loans, payments, creqs, lreqs, preqs, dash, quote, form, clear, gets>>

\* handleClose: the user presses the close button of the notification.
handleClose ==
  /\ ui.notification # 0
  /\ ui' = clearNotification(ui)
  /\ UNCHANGED <<server, customers, loans, payments, creqs, lreqs, preqs, dash, quote, form, clear, gets>>

\* onViewChange: the user goes to another view, and App renders again.
ViewChange ==
  /\ \E view \in {"dashboard", "loans"} :
       /\ view # ui.view
       /\ ui' = AfterRender([ui EXCEPT !.view = view])
  /\ UNCHANGED <<server, customers, loans, payments, creqs, lreqs, preqs, dash, quote, form, clear, gets>>

\* A second passes; a timer that is due fires before the next second does.
Tick ==
  /\ ui.now < MaxTime
  /\ \A t \in ui.appTimers : t.due > ui.now
  /\ ui.effectTimer = 0 \/ ui.effectTimer > ui.now
  /\ ui' = [ui EXCEPT !.now = @ + 1]
  /\ UNCHANGED <<server, customers, loans, payments, creqs, lreqs, preqs, dash, quote, form, clear, gets>>

NextNotify ==
  \/ handleNotification \/ AppTimerFires \/ EffectTimerFires
  \/ handleClose \/ ViewChange \/ Tick

----------------------------------------------------------------------------
(* The payment calculator on its own: the two lines of the create-loan
   handler that compute monthlyPayment and totalAmount, applied to arguments
   of the calculator's whole domain.  A rate of zero is among them: the
   calculator has a branch for it, although the handler's check of the body
   turns a zero rate away before the calculator is reached. *)

QuotePrincipals == {500000 * Rupee, 100000 * Rupee, 1001 * Rupee, 1000 * Rupee}
QuoteRates == {0, 85, 120}
QuoteTerms == {60, 12, 7, 3, 2}

QuoteInputs ==
  {[pc |-> "new", principal |-> p, annualRate |-> r, termMonths |-> n,
    monthlyPayment |-> 0, totalAmount |-> 0] :
     p \in QuotePrincipals, r \in QuoteRates, n \in QuoteTerms}

Calculate ==
  /\ quote.pc = "new"
  /\ LET monthlyPayment ==
           calculateMonthlyPayment(quote.principal, quote.annualRate,
                                   quote.termMonths)
         totalAmount == Round2(monthlyPayment * quote.termMonths)
     IN  quote' = [quote EXCEPT !.pc = "done",
                                !.monthlyPayment = monthlyPayment,
                                !.totalAmount = totalAmount]
  /\ UNCHANGED <<server, customers, loans, payments, creqs, lreqs, preqs, dash, form, clear, gets, ui>>

\* The worked example of the documentation as a create-loan request.
LoanRequestExample(q) ==
  /\ lreqs[q].pc = "new"
  /\ LoanArrive(q, "CUST-1", Num(500000), Num(85), Num(60))

InitCalc ==
  /\ server = Listening
  /\ customers = StoredCustomers
  /\ loans = [l \in LoanReqIds |-> NullLoan]
  /\ payments = {}
  /\ creqs = [c \in CustReqIds |-> NewCustReq]
  /\ lreqs = [q \in LoanReqIds |-> NewLoanReq]
  /\ preqs = [r \in PayReqIds |-> NewPayReq]
  /\ dash = NewDashReq
  /\ quote \in QuoteInputs \cup {NoQuote}
  /\ form = NewForm
  /\ clear = NewClearReq
  /\ gets = [g \in GetReqIds |-> NewGetReq]
  /\ ui = NewUi

\* Either the calculator is applied, or create-loan requests are served.
NextCalc ==
  \/ Calculate
  \/ /\ quote = NoQuote
     /\ \E q \in LoanReqIds :
          LoanRequestExample(q) \/ LoanFindCustomer(q) \/ LoanSave(q)

SpecCalc == InitCalc /\ [][NextCalc]_vars

----------------------------------------------------------------------------
(* The loan form of the client (src/src/components/LoanForm.jsx) in front of
   the create-loan handler.  The text of the amount is a number of rupees,
   that of the rate a number of tenths of a percent, that of the term a
   number of tenths of a month ("2.5" is 25). *)

\* parseFloat(text)
ParseFloat(v) == IF v.t = "number" THEN v ELSE NotANumber

\* parseInt(text) of a term: the digits before the decimal point.
ParseInt(v) == IF v.t = "number" THEN Num(v.n \div 10) ELSE NotANumber

\* calculatePayment(): monthlyPayment is kept unrounded, totalAmount is its
\* product with the term, and each is rounded for display.
calculatePayment(formData) ==
  LET principal == ParseFloat(formData.amount)
      annualRate == ParseFloat(formData.interestRate)
      termMonths == ParseInt(formData.term)
      monthlyPayment == PaymentRatio(principal.n * Rupee, annualRate.n, termMonths.n)
      totalAmount == BigMul(monthlyPayment.n, BigOf(termMonths.n))
      totalInterest ==
        BigSub(totalAmount, BigMul(monthlyPayment.d, BigOf(principal.n * 100)))
  IN  IF principal = NotANumber \/ annualRate = NotANumber \/ termMonths = NotANumber
        THEN NoPreview
        ELSE [shown |-> TRUE,
              monthlyPayment |->
                BigRoundRatio(monthlyPayment.n, monthlyPayment.d) * Paisa,
              totalAmount |-> BigRoundRatio(totalAmount, monthlyPayment.d) * Paisa,
              totalInterest |-> BigRoundRatio(totalInterest, monthlyPayment.d) * Paisa]

\* The effect on formData.amount, .interestRate and .term.
Preview(formData) ==
  IF formData.amount # EmptyText /\ formData.interestRate # EmptyText
       /\ formData.term # EmptyText
    THEN calculatePayment(formData)
    ELSE NoPreview

FormCustomerInputs == {"CUST-1"}
FormAmountInputs == {Num(1000), Num(2000), Num(999)}
FormRateInputs == {Num(120), Num(500)}
FormTermInputs == {Num(20), Num(25), Num(120)}

\* handleChange(field, value), and the effect that follows the render.
handleChange(field, value) ==
  /\ ~form.loading
  /\ form.outcome = ""
  /\ form[field] # value
  /\ LET formData == [form EXCEPT ![field] = value]
     IN  form' = [formData EXCEPT !.calculatedPayment = Preview(formData),
                                  !.errors = @ \ {field}]
  /\ UNCHANGED <<server, customers, loans, payments, creqs, lreqs, preqs, dash, quote, clear, gets, ui>>

FormChange ==
  \/ \E v \in FormCustomerInputs : handleChange("customerId", v)
  \/ \E v \in FormAmountInputs : handleChange("amount", v)
  \/ \E v \in FormRateInputs : handleChange("interestRate", v)
  \/ \E v \in FormTermInputs : handleChange("term", v)

\* The fields validateForm() finds in error.
FormErrors(formData) ==
  LET amount == ParseFloat(formData.amount)
      rate == ParseFloat(formData.interestRate)
      term == ParseInt(formData.term)
  IN  {f \in {"customerId"} : formData.customerId = ""}
        \cup {f \in {"amount"} :
               \/ formData.amount = EmptyText \/ amount = NotANumber
               \/ amount.n < 1000 \/ amount.n > 100000000}
        \cup {f \in {"interestRate"} :
               \/ formData.interestRate = EmptyText \/ rate = NotANumber
               \/ rate.n < 1 \/ rate.n > 500}
        \cup {f \in {"term"} :
               \/ formData.term = EmptyText \/ term = NotANumber
               \/ term.n < 1 \/ term.n > 360}

\* validateForm()
validateForm(formData) == FormErrors(formData) = {}

\* handleSubmit up to `await loanAPI.create(loanData)`: the request arrives
\* at the server.
FormSubmit(q) ==
  /\ ~form.loading
  /\ form.outcome = ""
  /\ IF validateForm(form)
       THEN /\ form' = [form EXCEPT !.loading = TRUE, !.errors = {}, !.request = q]
            /\ LoanReceive(q, form.customerId, ParseFloat(form.amount),
                           ParseFloat(form.interestRate), ParseInt(form.term))
       ELSE /\ form' = [form EXCEPT !.errors = FormErrors(form)]
            /\ UNCHANGED <<server, customers, loans, payments, creqs, lreqs, preqs, dash, quote, clear, gets, ui>>

\* handleSubmit after the await: onSuccess, or the notification of the error.
FormResponse ==
  /\ form.loading
  /\ lreqs[form.request].sent > 0
  /\ form' = [form EXCEPT !.loading = FALSE,
                          !.outcome = IF lreqs[form.request].resp = "201"
                                        THEN "success" ELSE "error"]
  /\ UNCHANGED <<server, customers, loans, payments, creqs, lreqs, preqs, dash, quote, clear, gets, ui>>

NextForm ==
  \/ FormChange
  \/ FormResponse
  \/ \E q \in LoanReqIds : FormSubmit(q) \/ LoanFindCustomer(q) \/ LoanSave(q)

----------------------------------------------------------------------------
(* The ledger: startup, create-loan and create-payment requests *)

Next ==
  \/ Connect \/ Listen
  \/ \E q \in LoanReqIds : LoanRequest(q) \/ LoanFindCustomer(q) \/ LoanSave(q)
  \/ \E r \in PayReqIds :
       PayRequest(r) \/ PayFindLoan(r) \/ PaySavePayment(r) \/ PaySaveLoan(r)

Spec == Init /\ [][Next]_vars

----------------------------------------------------------------------------
(* Loan creation alone, over a wider range of request bodies: amounts below
   the minimum, rates and terms on both sides of the schema's limits. *)

WideLoanCustomerInputs == {"CUST-1", "CUST-9"}
WideLoanAmountInputs == {Num(1000), Num(2000), Num(999), Text}
WideLoanRateInputs == {Num(120), Num(500), Num(600), Num(-10), Num(0)}
WideLoanTermInputs == {Num(1), Num(2), Num(361), Num(-1), Num(0), Text}

LoanRequestWide(q) ==
  /\ lreqs[q].pc = "new"
  /\ \E customerId \in WideLoanCustomerInputs, amount \in WideLoanAmountInputs,
        interestRate \in WideLoanRateInputs, term \in WideLoanTermInputs :
       LoanArrive(q, customerId, amount, interestRate, term)

\* The server is listening and no request has arrived.
InitListening ==
  /\ server = Listening
  /\ customers = StoredCustomers
  /\ loans = [l \in LoanReqIds |-> NullLoan]
  /\ payments = {}
  /\ creqs = [c \in CustReqIds |-> NewCustReq]
  /\ lreqs = [q \in LoanReqIds |-> NewLoanReq]
  /\ preqs = [r \in PayReqIds |-> NewPayReq]
  /\ dash = NewDashReq
  /\ quote = NoQuote
  /\ form = NewForm
  /\ clear = NewClearReq
  /\ gets = [g \in GetReqIds |-> NewGetReq]
  /\ ui = NewUi

NextCust ==
  \E c \in CustReqIds : CustRequest(c) \/ CustFindOne(c) \/ CustSave(c)

\* Customer creation alone.
SpecCust == InitListening /\ [][NextCust]_vars

----------------------------------------------------------------------------
(* The dashboard alone, on a store that earlier requests have filled: each
   loan is absent, newly created, partly paid or paid off. *)

\* The loan with id l as create-loan stores it.
LoanAsCreated(l) == NewLoanDoc(l, "CUST-1", 1000 + 1000 * (l - 1), 120, 2)

\* The payment with id k of `amount` on loan l, as create-payment stores it.
StoredPayment(k, l, amount) ==
  [paymentId |-> k, loanId |-> l, amount |-> amount, paymentType |-> "EMI",
   paymentMethod |-> "cash", status |-> "completed"]

\* The histories of loan l, `created` the loan as it was created and `part`
\* the loan after a first payment: the stored Loan and its Payments.
HistoriesOf(l, created, part) ==
  { [loan |-> NullLoan, payments |-> {}],
    [loan |-> created, payments |-> {}],
    [loan |-> part, payments |-> {StoredPayment(10 * l + 1, l, 400 * Rupee)}],
    [loan |-> UpdatedLoan(part, part.remainingBalance),
     payments |-> {StoredPayment(10 * l + 1, l, 400 * Rupee),
                   StoredPayment(10 * l + 2, l, part.remainingBalance)}] }

LoanHistories(l) ==
  HistoriesOf(l, LoanAsCreated(l), UpdatedLoan(LoanAsCreated(l), 400 * Rupee))

InitDash ==
  /\ server = Listening
  /\ customers = StoredCustomers
  /\ \E h \in [LoanReqIds -> UNION {LoanHistories(l) : l \in LoanReqIds}] :
       /\ \A l \in LoanReqIds : h[l] \in LoanHistories(l)
       /\ loans = [l \in LoanReqIds |-> h[l].loan]
       /\ payments = UNION {h[l].payments : l \in LoanReqIds}
  /\ creqs = [c \in CustReqIds |-> NewCustReq]
  /\ lreqs = [q \in LoanReqIds |-> NewLoanReq]
  /\ preqs = [r \in PayReqIds |-> NewPayReq]
  /\ dash = NewDashReq
  /\ quote = NoQuote
  /\ form = NewForm
  /\ clear = NewClearReq
  /\ gets = [g \in GetReqIds |-> NewGetReq]
  /\ ui = NewUi

NextDash ==
  \/ DashRequest
  \/ \E k \in DashQueries : DashQuery(k)
  \/ DashRecentLoans
  \/ DashRecentPayments

SpecDash == InitDash /\ [][NextDash]_vars

----------------------------------------------------------------------------
(* The four handlers, the requests of one behaviour all of one kind:
   create-customer requests, or create-loan and create-payment requests, or
   the dashboard request. *)

NoCustRequest == \A c \in CustReqIds : creqs[c].pc = "new"
NoLedgerRequest ==
  /\ \A q \in LoanReqIds : lreqs[q].pc = "new"
  /\ \A r \in PayReqIds : preqs[r].pc = "new"
NoDashRequest == dash.pc = "new"

NextServe ==
  \/ Connect \/ Listen
  \/ NoLedgerRequest /\ NoDashRequest /\ NextCust
  \/ /\ NoCustRequest /\ NoDashRequest
     /\ \/ \E q \in LoanReqIds : LoanRequest(q) \/ LoanFindCustomer(q) \/ LoanSave(q)
        \/ \E r \in PayReqIds :
             PayRequest(r) \/ PayFindLoan(r) \/ PaySavePayment(r) \/ PaySaveLoan(r)
  \/ NoCustRequest /\ NoLedgerRequest /\ NextDash

SpecServe == Init /\ [][NextServe]_vars

NextLoan ==
  \E q \in LoanReqIds : LoanRequestWide(q) \/ LoanFindCustomer(q) \/ LoanSave(q)

SpecLoan == InitListening /\ [][NextLoan]_vars

\* The ledger with the store cleared under it.
SpecClear == InitListening /\ [][NextClear]_vars

\* The dashboard with create-loan and create-payment requests served beside
\* it.
NextBusyDash ==
  \/ NextDash
  \/ \E q \in LoanReqIds : LoanRequest(q) \/ LoanFindCustomer(q) \/ LoanSave(q)
  \/ \E r \in PayReqIds :
       PayRequest(r) \/ PayFindLoan(r) \/ PaySavePayment(r) \/ PaySaveLoan(r)

SpecBusyDash == InitListening /\ [][NextBusyDash]_vars

\* GET requests alone.
SpecRoute == InitListening /\ [][NextRoute]_vars

\* The notifications of the client alone.
SpecNotify == InitListening /\ [][NextNotify]_vars

\* The loan form and the create-loan handler behind it.
SpecForm == InitListening /\ [][NextForm]_vars

----------------------------------------------------------------------------
(* Properties of the ledger *)

StoredLoanIds == {l \in LoanReqIds : loans[l] # NullLoan}
PaymentsOf(l) == {p \in payments : p.loanId = l}
PaymentsBy(r) == {p \in payments : p.paymentId = r}
HasPayment(r) == PaymentsBy(r) # {}
WholePaise(a) == a % Paisa = 0
Succeeded(r) == preqs[r].pc = "done" /\ preqs[r].resp = "201"
ValidTypeAndMethod(r) ==
  /\ ToUpperCase(preqs[r].paymentType) \in {"EMI", "LUMP_SUM"}
  /\ ToLowerCase(preqs[r].paymentMethod) \in
       {"cash", "check", "bank_transfer", "credit_card", "debit_card"}

\* C1: two succeeded payments of whole paise on one loan, the only payments
\* of that loan, whose sum is at most the balance B the loan started with,
\* leave the balance at B - a1 - a2.
C1_NoLostUpdate ==
  \A r1, r2 \in PayReqIds :
    (/\ r1 < r2 /\ Succeeded(r1) /\ Succeeded(r2)
     /\ preqs[r1].loanId = preqs[r2].loanId
     /\ PaymentsOf(preqs[r1].loanId) = PaymentsBy(r1) \cup PaymentsBy(r2)
     /\ WholePaise(preqs[r1].amount) /\ WholePaise(preqs[r2].amount)
     /\ preqs[r1].amount + preqs[r2].amount <= loans[preqs[r1].loanId].totalAmount)
    => /\ HasPayment(r1) /\ HasPayment(r2)
       /\ loans[preqs[r1].loanId].remainingBalance =
            loans[preqs[r1].loanId].totalAmount - preqs[r1].amount - preqs[r2].amount

\* C2: a finished create-payment request has stored its Payment exactly when
\* it has updated its Loan, a failed write included.
C2_Atomic ==
  \A r \in PayReqIds :
    preqs[r].pc = "done" => (HasPayment(r) <=> preqs[r].updates = 1)

\* C3: every stored Loan has 0 <= remainingBalance <= totalAmount.
C3_BalanceInRange ==
  \A l \in StoredLoanIds :
    0 <= loans[l].remainingBalance /\ loans[l].remainingBalance <= loans[l].totalAmount

\* A loan that two payments were recorded on, with part of its balance left.
C3_Witness ==
  \E l \in StoredLoanIds :
    /\ Cardinality(PaymentsOf(l)) >= 2
    /\ 0 < loans[l].remainingBalance
    /\ loans[l].remainingBalance < loans[l].totalAmount

\* C4: every stored Loan is PAID_OFF exactly when its remainingBalance is 0.
C4_PaidOffIffZero ==
  \A l \in StoredLoanIds :
    loans[l].status = "PAID_OFF" <=> loans[l].remainingBalance = 0

\* C5: a request whose amount is above the balance of the ACTIVE loan it read
\* is rejected as exceeding the balance, stores no Payment and never updates
\* the Loan.
C5_OverpaymentRejected ==
  \A r \in PayReqIds :
    (/\ preqs[r].pc \notin {"new", "findLoan"}
     /\ preqs[r].read.status = "ACTIVE"
     /\ preqs[r].amount > preqs[r].read.remainingBalance)
    => /\ preqs[r].pc = "done" /\ preqs[r].resp = "400 exceeds"
       /\ ~HasPayment(r) /\ preqs[r].updates = 0

\* A request for one paisa more than the balance, rejected.
C5_Witness ==
  \E r \in PayReqIds :
    /\ preqs[r].resp = "400 exceeds"
    /\ preqs[r].read.status = "ACTIVE"
    /\ preqs[r].amount = preqs[r].read.remainingBalance + Paisa

\* C6: once a Loan is PAID_OFF it stays PAID_OFF with balance 0 and gets no
\* further Payment.
C6_PaidOffTerminal ==
  [][\A l \in StoredLoanIds :
       loans[l].status = "PAID_OFF"
       => /\ loans'[l].status = "PAID_OFF"
          /\ loans'[l].remainingBalance = 0
          /\ PaymentsOf(l)' = PaymentsOf(l)]_vars

\* C7: a request for exactly the balance of the ACTIVE loan it read, with a
\* valid type and method and no failure of the store, is accepted and saves
\* the loan as PAID_OFF with balance 0.
C7_PayoffAccepted ==
  \A r \in PayReqIds :
    (/\ preqs[r].pc = "done"
     /\ preqs[r].read.status = "ACTIVE"
     /\ preqs[r].amount = preqs[r].read.remainingBalance
     /\ ValidTypeAndMethod(r)
     /\ preqs[r].error # "MongoError")
    => /\ preqs[r].resp = "201"
       /\ preqs[r].loan.remainingBalance = 0
       /\ preqs[r].loan.status = "PAID_OFF"

\* C8: no step raises the stored remainingBalance of a Loan.
C8_NonIncreasing ==
  [][\A l \in StoredLoanIds :
       loans'[l].remainingBalance <= loans[l].remainingBalance]_vars

\* The responses of the rejections C9 names.
Rejections == {"400 required", "400 positive", "404 loan", "400 paid off", "400 exceeds"}

\* C9: a rejected request has ended, stored no Payment and never updated the
\* Loan; the step that rejects it changes neither the loans nor the payments.
C9_RejectionNoEffect ==
  /\ [](\A r \in PayReqIds :
          preqs[r].resp \in Rejections
          => preqs[r].pc = "done" /\ ~HasPayment(r) /\ preqs[r].updates = 0)
  /\ [][\A r \in PayReqIds :
          (preqs[r].resp \notin Rejections /\ preqs'[r].resp \in Rejections)
          => loans' = loans /\ payments' = payments]_vars

\* A payment rejected because its loan is already paid off.
C9_Witness ==
  \E r \in PayReqIds :
    /\ preqs[r].resp = "400 paid off"
    /\ loans[preqs[r].loanId].status = "PAID_OFF"
    /\ PaymentsOf(preqs[r].loanId) # {}

\* C10: a succeeded request has stored one completed Payment and updated its
\* Loan once, and every Payment of a finished request is one of a succeeded
\* request.
C10_OnePaymentPerSuccess ==
  \A r \in PayReqIds :
    /\ Succeeded(r)
       => /\ Cardinality({p \in PaymentsBy(r) : p.status = "completed"}) = 1
          /\ preqs[r].updates = 1
    /\ (preqs[r].pc = "done" /\ HasPayment(r)) => Succeeded(r)

\* C11: a request for less than the balance of the ACTIVE loan it read, with
\* a valid type and method and no failure of the store, is accepted and
\* leaves the loan ACTIVE with the balance less the amount, rounded to paise.
C11_PartialAccepted ==
  \A r \in PayReqIds :
    (/\ preqs[r].pc = "done"
     /\ preqs[r].read.status = "ACTIVE"
     /\ 0 < preqs[r].amount /\ preqs[r].amount < preqs[r].read.remainingBalance
     /\ ValidTypeAndMethod(r)
     /\ preqs[r].error # "MongoError")
    => /\ preqs[r].resp = "201"
       /\ preqs[r].loan.remainingBalance =
            Round2(preqs[r].read.remainingBalance - preqs[r].amount)
       /\ preqs[r].loan.status = "ACTIVE"

\* C12: the Loan a successful create-loan request stores is ACTIVE, carries
\* the request's customer, principal, rate and term, has the calculator's
\* monthlyPayment for them, totalAmount = monthlyPayment * term rounded to
\* paise, and remainingBalance = totalAmount.
C12_LoanAsCalculated ==
  [][\A q \in LoanReqIds :
       (lreqs[q].resp # "201" /\ lreqs'[q].resp = "201")
       => LET doc == loans'[q]
          IN  /\ doc.status = "ACTIVE"
              /\ doc.customerId = lreqs[q].customerId
              /\ doc.amount = lreqs[q].amount * Rupee
              /\ doc.interestRate = lreqs[q].interestRate
              /\ doc.term = lreqs[q].term
              /\ doc.monthlyPayment =
                   calculateMonthlyPayment(doc.amount, doc.interestRate, doc.term)
              /\ doc.totalAmount = Round2(doc.monthlyPayment * doc.term)
              /\ doc.remainingBalance = doc.totalAmount]_vars

\* A stored loan of 2000.00 at 50% over 2 months: 1062.93 a month, 2125.86 in all.
C12_Witness ==
  \E q \in LoanReqIds :
    /\ lreqs[q].resp = "201"
    /\ loans[q].amount = 2000 * Rupee /\ loans[q].interestRate = 500
    /\ loans[q].term = 2
    /\ loans[q].monthlyPayment = 1062930
    /\ loans[q].remainingBalance = 2125860

\* The fields of a Loan that a payment does not touch.
FixedLoanFields ==
  {"loanId", "customerId", "amount", "interestRate", "term", "monthlyPayment",
   "totalAmount"}

\* C13: every stored Loan keeps the customerId, amount, interestRate, term,
\* monthlyPayment and totalAmount it was created with, whatever payments
\* were applied to it.
C13_OnlyBalanceAndStatus ==
  \A l \in StoredLoanIds :
    \A f \in FixedLoanFields : loans[l][f] = lreqs[l].loan[f]

\* A loan that a payment was applied to: part of its balance is paid.
C13_Witness ==
  \E l \in StoredLoanIds :
    /\ PaymentsOf(l) # {}
    /\ loans[l].remainingBalance < lreqs[l].loan.remainingBalance
    /\ loans[l].totalAmount = lreqs[l].loan.totalAmount

\* A request body outside the limits: a principal below 1000, a rate outside
\* 0.1 .. 50 percent, a term outside 1 .. 360, a term of 0, or a field that is
\* no number.
LoanBodyOutOfRange(amount, interestRate, term) ==
  \/ IsNaN(amount) \/ IsNaN(interestRate) \/ IsNaN(term)
  \/ amount.n < 1000
  \/ interestRate.n < 1 \/ interestRate.n > 500
  \/ term.n < 1 \/ term.n > 360

LoanErrors == {"400 required", "400 numbers", "400 minimum", "404 customer", "400 failed"}

\* C14: every stored Loan has a principal of at least 1000, a rate within
\* 0.1 .. 50 percent and a term within 1 .. 360; a request whose body is
\* outside these limits stores no Loan and ends with an error response,
\* whether the handler's own checks reject it on arrival or the schema's
\* validators reject it at save().
C14_LoanLimits ==
  /\ [](\A q \in LoanReqIds :
          /\ loans[q] # NullLoan
             => /\ loans[q].amount >= 1000 * Rupee
                /\ loans[q].interestRate >= 1 /\ loans[q].interestRate <= 500
                /\ loans[q].term >= 1 /\ loans[q].term <= 360
          /\ (/\ lreqs[q].pc \notin {"new", "done"}
              /\ LoanBodyOutOfRange(Num(lreqs[q].amount), Num(lreqs[q].interestRate),
                                    Num(lreqs[q].term)))
             => loans[q] = NullLoan
          /\ (/\ lreqs[q].pc = "done"
              /\ \/ lreqs[q].resp \in {"400 required", "400 numbers", "400 minimum"}
                 \/ LoanBodyOutOfRange(Num(lreqs[q].amount), Num(lreqs[q].interestRate),
                                       Num(lreqs[q].term)))
             => lreqs[q].resp \in LoanErrors /\ loans[q] = NullLoan)
  /\ [][\A q \in LoanReqIds :
          (lreqs[q].pc = "new" /\ lreqs'[q].pc # "new")
          => \A customerId \in WideLoanCustomerInputs, amount \in WideLoanAmountInputs,
                interestRate \in WideLoanRateInputs, term \in WideLoanTermInputs :
            (/\ LoanArrive(q, customerId, amount, interestRate, term)
             /\ \/ IsNaN(amount) \/ IsNaN(interestRate) \/ IsNaN(term)
                \/ amount.n < 1000 \/ term.n = 0)
            => /\ lreqs'[q].pc = "done" /\ lreqs'[q].resp \in LoanErrors
               /\ loans' = loans]_vars

\* A request for 2000.00 at 12 percent over 361 months, refused by the
\* schema's validators with nothing stored.
C14_Witness ==
  \E q \in LoanReqIds :
    /\ lreqs[q].resp = "400 failed" /\ lreqs[q].error = "ValidationError"
    /\ lreqs[q].amount = 2000 /\ lreqs[q].interestRate = 120 /\ lreqs[q].term = 361
    /\ loans[q] = NullLoan

\* C15: a request whose body passes the handler's checks of its fields (the
\* amount, type and method given, the amount a positive number) and that reads
\* a PAID_OFF loan is answered "already paid off", whatever its amount, and
\* stores nothing.
C15_PaidOffRejected ==
  \A r \in PayReqIds :
    (preqs[r].pc \notin {"new", "findLoan"} /\ preqs[r].read.status = "PAID_OFF")
    => /\ preqs[r].pc = "done" /\ preqs[r].resp = "400 paid off"
       /\ ~HasPayment(r) /\ preqs[r].updates = 0

\* A payment of 400.00, more than the balance 0 of the PAID_OFF loan it
\* read, answered "already paid off".
C15_Witness ==
  \E r \in PayReqIds :
    /\ preqs[r].resp = "400 paid off"
    /\ preqs[r].read.status = "PAID_OFF" /\ preqs[r].read.remainingBalance = 0
    /\ preqs[r].amount = 400 * Rupee

\* C15 as stated: no request against a PAID_OFF loan, whatever its body, is
\* answered with another error than "already paid off".
C15_AnyBodyInvalidState ==
  /\ [](\A r \in PayReqIds :
          (preqs[r].pc \notin {"new", "findLoan"} /\ preqs[r].read.status = "PAID_OFF")
          => preqs[r].resp = "400 paid off")
  /\ [][\A r \in PayReqIds, loanId \in LoanReqIds :
          (preqs[r].pc = "new" /\ preqs'[r].pc # "new"
             /\ loans[loanId].status = "PAID_OFF")
          => \A paymentType \in PayTypeInputs, paymentMethod \in PayMethodInputs,
                amount \in PayAmountInputs(loanId) :
            PayArrive(r, loanId, amount, paymentType, paymentMethod)
            => preqs'[r].resp \in {"", "400 paid off"}]_vars

\* An email as the claim compares it: lower-cased and trimmed.
NormalEmail(s) == Trim(ToLowerCase(s))

\* C16: no two stored Customers have the same email, lower-cased and trimmed;
\* a Customer is stored only for a request answered 201, and of the requests
\* for one email, and of a request for the email of a Customer stored before
\* and that Customer, at most one is answered 201.
C16_UniqueEmail ==
  /\ \A d1, d2 \in customers :
       NormalEmail(d1.email) = NormalEmail(d2.email) => d1 = d2
  /\ \A c \in CustReqIds :
       /\ (\E d \in customers : d.customerId = NewCustomerId(c))
          <=> creqs[c].resp = "201"
       /\ creqs[c].resp = "201"
          => /\ \A d \in StoredCustomers : d.email # NormalEmail(creqs[c].email)
             /\ \A c2 \in CustReqIds \ {c} :
                  NormalEmail(creqs[c2].email) = NormalEmail(creqs[c].email)
                  => creqs[c2].resp # "201"

\* Two requests for one email that both found no Customer with it, the first
\* stored, the second refused by the unique index.
C16_Witness ==
  \E c1, c2 \in CustReqIds :
    /\ c1 # c2
    /\ NormalEmail(creqs[c1].email) = "new@example.com"
    /\ NormalEmail(creqs[c2].email) = "new@example.com"
    /\ creqs[c1].resp = "201"
    /\ creqs[c2].resp = "400 failed" /\ creqs[c2].error = "MongoError"
    /\ Cardinality({d \in customers : d.email = "new@example.com"}) = 1

\* No create-customer, create-loan or create-payment request is in flight.
Quiescent ==
  /\ \A c \in CustReqIds : creqs[c].pc \in {"new", "done"}
  /\ \A q \in LoanReqIds : lreqs[q].pc \in {"new", "done"}
  /\ \A r \in PayReqIds : preqs[r].pc \in {"new", "done"}

\* The sum of f over 1 .. n.
RECURSIVE SumOver(_, _)
SumOver(f, n) == IF n = 0 THEN 0 ELSE f[n] + SumOver(f, n - 1)

\* The ids of the stored Payments lie in 1 .. LastPaymentId.
LastPaymentId == 10 * MaxLoanReqs + 2

\* The amount of the completed Payment with id k, 0 when there is none.
CompletedAmount(k) ==
  LET ps == {p \in payments : p.paymentId = k /\ p.status = "completed"}
  IN  IF ps = {} THEN 0 ELSE (CHOOSE p \in ps : TRUE).amount

\* C17: with no other request in flight, the dashboard answers with
\* totalLoanAmount = the sum of the amounts of all stored Loans,
\* totalCollected = the sum of the amounts of the completed Payments (0 when
\* there is none), activeLoans and paidOffLoans = the numbers of stored Loans
\* of each status.
C17_DashboardTotals ==
  (Quiescent /\ dash.pc = "done" /\ dash.resp = "200")
  => /\ dash.stats.totalLoanAmount =
          SumOver([l \in LoanReqIds |-> loans[l].amount], MaxLoanReqs)
     /\ dash.stats.totalCollected =
          SumOver([k \in 1..LastPaymentId |-> CompletedAmount(k)], LastPaymentId)
     /\ (payments = {} => dash.stats.totalCollected = 0)
     /\ dash.stats.activeLoans =
          Cardinality({l \in StoredLoanIds : loans[l].status = "ACTIVE"})
     /\ dash.stats.paidOffLoans =
          Cardinality({l \in StoredLoanIds : loans[l].status = "PAID_OFF"})

\* The dashboard answered on a store with a paid-off loan of 1000.00 on which
\* 1015.02 was collected in two payments.
C17_Witness ==
  /\ dash.resp = "200"
  /\ loans[1].status = "PAID_OFF"
  /\ Cardinality(PaymentsOf(1)) = 2
  /\ dash.stats.paidOffLoans >= 1
  /\ dash.stats.totalLoanAmount >= 1000 * Rupee
  /\ dash.stats.totalCollected >= 1015020

\* Some request has been taken up by a handler.
SomeRequestServed ==
  \/ \E c \in CustReqIds : creqs[c].pc # "new"
  \/ \E q \in LoanReqIds : lreqs[q].pc # "new"
  \/ \E r \in PayReqIds : preqs[r].pc # "new"
  \/ dash.pc # "new"

\* C18: the server listens, and serves a request, only when the connection
\* to the store has been established; a failed connection takes the process
\* from connecting to exited, and an exited process stays exited.
C18_ListenAfterConnect ==
  /\ []((server.pc = "listening" \/ SomeRequestServed) => server.connected)
  /\ [][/\ (server.pc = "connecting" /\ ~server'.connected) => server'.pc = "exited"
        /\ server.pc = "exited" => server'.pc = "exited"
        /\ server'.pc = "listening" => server.pc \in {"connected", "listening"}]_vars

\* The connection failed and the process has exited.
C18_Witness == server.pc = "exited" /\ ~server.connected /\ ~SomeRequestServed

\* C19: no step of a create-loan or create-payment request removes a stored
\* Payment or changes a field of one: every stored Payment is stored,
\* unchanged, after the step, so the Payments of each loan only grow.
C19_PaymentsAppendOnly ==
  [][/\ payments \subseteq payments'
     /\ \A l \in LoanReqIds : PaymentsOf(l) \subseteq PaymentsOf(l)']_vars

\* A loan with the Payments of two succeeded requests.
C19_Witness ==
  \E r1, r2 \in PayReqIds :
    /\ r1 # r2 /\ Succeeded(r1) /\ Succeeded(r2)
    /\ preqs[r1].loanId = preqs[r2].loanId
    /\ PaymentsOf(preqs[r1].loanId) = {NewPaymentDoc(r1), NewPaymentDoc(r2)}

\* The error responses of the handlers: a 4xx or 5xx status with a message.
ErrorResponses ==
  {"400 required", "400 numbers", "400 minimum", "400 positive", "400 exists",
   "400 paid off", "400 exceeds", "400 failed", "404 customer", "404 loan",
   "500 failed"}

\* A handler has sent exactly one response when it has ended and none
\* before; a failure it caught is answered with an error response.
OneResponse(req) ==
  /\ req.pc = "done" => req.sent = 1 /\ req.resp \in ErrorResponses \cup {"200", "201"}
  /\ req.pc # "done" => req.sent = 0 /\ req.resp = ""
  /\ req.error # "" => req.pc = "done" /\ req.resp \in ErrorResponses

----------------------------------------------------------------------------
(* Properties of the ledger: the money of a loan *)

\* The amount of the Payment with id r when it is one of ps, 0 otherwise.
AmountIn(ps, r) ==
  LET found == {p \in ps : p.paymentId = r}
  IN  IF found = {} THEN 0 ELSE (CHOOSE p \in found : TRUE).amount

\* The sum of the amounts of the Payments of loan l.
PaidOn(l) == SumOver([r \in PayReqIds |-> AmountIn(PaymentsOf(l), r)], MaxPayReqs)

\* The sum of the amounts of the completed Payments of loan l.
CompletedOn(l) ==
  SumOver([r \in PayReqIds |->
             AmountIn({p \in PaymentsOf(l) : p.status = "completed"}, r)],
          MaxPayReqs)

\* A create-payment request on loan l is between its arrival and its end.
InFlightOn(l) ==
  \E r \in PayReqIds : preqs[r].pc \notin {"new", "done"} /\ preqs[r].loanId = l

\* C23: for a stored Loan with no create-payment request in flight on it and
\* Payments of whole paise, totalAmount - remainingBalance is the sum of the
\* amounts of its Payments.
C23_Conservation ==
  \A l \in StoredLoanIds :
    (~InFlightOn(l) /\ \A p \in PaymentsOf(l) : WholePaise(p.amount))
    => loans[l].totalAmount - loans[l].remainingBalance = PaidOn(l)

\* C24: the completed Payments of a stored Loan sum to at most its
\* totalAmount.
C24_NoOverCollection ==
  \A l \in StoredLoanIds : CompletedOn(l) <= loans[l].totalAmount

\* C25: for every stored ACTIVE Loan with a balance above 0 there is an amount
\* that passes the handler's checks and the validation of the Payment: the
\* balance itself, or one rupee.
C25_NotStuck ==
  \A l \in StoredLoanIds :
    (loans[l].status = "ACTIVE" /\ loans[l].remainingBalance > 0)
    => \E amount \in {loans[l].remainingBalance, Rupee} :
         /\ amount > 0
         /\ CheckLoan(loans[l], amount) = "ok"
         /\ PaymentSchemaValid(StoredPayment(1, l, amount))

----------------------------------------------------------------------------
(* Properties of the store: references *)

StoredCustomerIds == {c.customerId : c \in customers}

\* C26: every Payment's loanId names a stored Loan and every Loan's
\* customerId names a stored Customer; a create-loan request answered
\* 'Customer not found' has stored no Loan and a create-payment request
\* answered 'Loan not found' has stored no Payment.
C26_ReferentialIntegrity ==
  /\ \A p \in payments : p.loanId \in StoredLoanIds
  /\ \A l \in StoredLoanIds : loans[l].customerId \in StoredCustomerIds
  /\ \A q \in LoanReqIds : lreqs[q].resp = "404 customer" => loans[q] = NullLoan
  /\ \A r \in PayReqIds : preqs[r].resp = "404 loan" => ~HasPayment(r)

----------------------------------------------------------------------------
(* Properties of the dashboard beside other requests *)

\* C27: the stats of every dashboard response describe one state of the
\* store: activeLoans + paidOffLoans = totalLoans, and totalLoanAmount is 0
\* exactly when totalLoans is.
C27_ConsistentStats ==
  (dash.pc = "done" /\ dash.resp = "200")
  => /\ dash.stats.activeLoans + dash.stats.paidOffLoans = dash.stats.totalLoans
     /\ dash.stats.totalLoanAmount = 0 <=> dash.stats.totalLoans = 0

----------------------------------------------------------------------------
(* Properties of the routes *)

\* The handlers registered for the path itself, the catch-alls aside.
OwnHandlers(path) ==
  {Routes[i].handler : i \in {j \in 1..Len(Routes) :
     Routes[j].pattern # <<"*">> /\ Matches(Routes[j].pattern, path)}}

\* C28: a GET request whose path starts with /api/ is taken by the handler
\* registered for its path when there is one and by the catch-all that answers
\* 404 'API endpoint not found' otherwise, and is answered with JSON.
C28_ApiAnsweredWithJson ==
  \A g \in GetReqIds :
    (gets[g].pc # "new" /\ StartsWithApi(gets[g].path))
    => /\ IF OwnHandlers(gets[g].path) # {}
            THEN gets[g].handler \in OwnHandlers(gets[g].path)
            ELSE gets[g].handler = "notFoundOrFrontend"
       /\ gets[g].pc = "done" =>
            gets[g].resp \in {"json 200", "json 404", "json 500"}

----------------------------------------------------------------------------
(* Properties of the notifications *)

\* C29: a notification that stops being displayed, and was neither closed by
\* the user nor replaced by a newer one, has been displayed for 5 seconds.
C29_ShownFiveSeconds ==
  [][(ui.notification # 0 /\ ui'.notification = 0 /\ ~handleClose)
       => ui.now - ui.shownAt >= Delay]_vars

----------------------------------------------------------------------------
(* Properties of the calculator *)

\* |x - y| <= 0.01
Within1Paisa(x, y) == x - y <= Paisa /\ y - x <= Paisa

ExampleMonthlyPayment == 10258 * Rupee + 27 * Paisa
ExampleTotalAmount == 615496 * Rupee + 20 * Paisa

IsExampleQuote ==
  /\ quote.pc = "done"
  /\ quote.principal = 500000 * Rupee
  /\ quote.annualRate = 85
  /\ quote.termMonths = 60

IsExampleLoan(q) ==
  /\ loans[q] # NullLoan
  /\ loans[q].amount = 500000 * Rupee
  /\ loans[q].interestRate = 85
  /\ loans[q].term = 60

(* C21: for a principal of 500000 at 8.5% over 60 months the calculator
   returns 10258.27 and a loan created with these terms is stored with a
   totalAmount of 615496.20, each within 0.01. *)
C21_WorkedExample ==
  /\ IsExampleQuote =>
       /\ Within1Paisa(quote.monthlyPayment, ExampleMonthlyPayment)
       /\ Within1Paisa(quote.totalAmount, ExampleTotalAmount)
  /\ \A q \in LoanReqIds :
       IsExampleLoan(q) =>
         /\ Within1Paisa(loans[q].monthlyPayment, ExampleMonthlyPayment)
         /\ Within1Paisa(loans[q].totalAmount, ExampleTotalAmount)

C21_Witness ==
  \E q \in LoanReqIds : IsExampleLoan(q) /\ lreqs[q].resp = "201"

IsZeroRateQuote == quote.pc = "done" /\ quote.annualRate = 0

\* x is y / n rounded to 2 decimals: a whole number of paise, at most half a
\* paisa from y / n.
IsRounded2(x, y, n) ==
  /\ x % Paisa = 0
  /\ 2 * (n * x - y) <= n * Paisa
  /\ 2 * (y - n * x) <= n * Paisa

(* C22: at a rate of zero the calculator returns P / n rounded to 2 decimals
   for every principal P and term n; the totalAmount derived from it is within
   n times half a paisa of P, and is P when P / n is a whole number of
   paise. *)
C22_ZeroRate ==
  IsZeroRateQuote =>
    /\ IsRounded2(quote.monthlyPayment, quote.principal, quote.termMonths)
    /\ quote.totalAmount = quote.termMonths * quote.monthlyPayment
    /\ 2 * (quote.totalAmount - quote.principal) <= quote.termMonths * Paisa
    /\ 2 * (quote.principal - quote.totalAmount) <= quote.termMonths * Paisa
    /\ quote.principal % (quote.termMonths * Paisa) = 0
         => quote.totalAmount = quote.principal

\* 1000 over 3 months at no interest: 333.33 a month, 999.99 in total.
C22_Witness ==
  /\ IsZeroRateQuote
  /\ quote.principal = 1000 * Rupee
  /\ quote.termMonths = 3
  /\ quote.monthlyPayment = 333 * Rupee + 33 * Paisa
  /\ quote.totalAmount = 999 * Rupee + 99 * Paisa

\* C22 as stated: at a rate of zero the derived totalAmount equals P.
C22_TotalIsPrincipal ==
  IsZeroRateQuote =>
    /\ IsRounded2(quote.monthlyPayment, quote.principal, quote.termMonths)
    /\ quote.totalAmount = quote.principal

----------------------------------------------------------------------------
(* Properties of the loan form *)

\* The loan the server stored for the form's request.
FormLoan == lreqs[form.request].loan

FormLoanStored == form.request # 0 /\ lreqs[form.request].resp = "201"

(* C30: when the server has stored the loan that the form submitted, the
   monthlyPayment and the totalAmount of the form's preview are those of the
   stored loan. *)
C30_PreviewAsStored ==
  FormLoanStored =>
    /\ form.calculatedPayment.shown
    /\ form.calculatedPayment.monthlyPayment = FormLoan.monthlyPayment
    /\ form.calculatedPayment.totalAmount = FormLoan.totalAmount

====
